---- MODULE Spec2Model ----
(***************************************************************************)
(* Structural engine of the report DSL: token resolution (Arg), argument   *)
(* groups and their expansion into Expressions (Selections), lowering of   *)
(* clauses to a scope tree (Node), scope tree rendering, and the           *)
(* cross-section Table.                                                    *)
(***************************************************************************)
EXTENDS Integers, Sequences, FiniteSets, TLC

VARIABLES
    op,          \* the operation that ran last
    label, token, arg,          \* token resolution: the label, the raw token, the Result<Arg>
    expr, filled,               \* one Expression and the Args filled into it so far
    node, ctx, rendered,        \* a component, the ambient Expression of its render, the Result<String>
    clause,                     \* the Clause that was lowered to node
    table,                      \* a Table
    groups, expressions         \* a Vec<ArgGroup> and the Function::Expressions made from it

resolveVars == <<label, token, arg>>
fillVars == <<expr, filled>>
renderVars == <<node, ctx, rendered>>
expandVars == <<groups, expressions>>
vars == <<op, resolveVars, fillVars, renderVars, clause, table, expandVars>>

(***************************************************************************)
(* Bounds                                                                  *)
(***************************************************************************)
\* number of distinct values a Selection field / an Arg can carry
NumVals == 2
\* longest sequence of fill_arg calls applied to one Expression
MaxArgs == 3
\* most fields set in an Expression a node, an ambient context or a table base starts with
MaxSet == 2
\* most children added to one Node, most child clauses of one Block
MaxChildren == 2
\* longest row axis and longest column axis of a Table
MaxAxis == 2
\* most ArgGroups in one clause
MaxGroups == 2
\* longest collection of an ArgGroup
MaxColl == 2

(***************************************************************************)
(* Option and Result                                                       *)
(***************************************************************************)
NoneOpt == [some |-> FALSE]
Some(x) == [some |-> TRUE, val |-> x]
Ok(x) == [ok |-> TRUE, val |-> x]
Err(e) == [ok |-> FALSE, err |-> e]

(***************************************************************************)
(* Arg: the closed union of typed arguments (arg.rs, enum Arg)             *)
(***************************************************************************)
Variants == {"Command", "Function", "TimeFrequency", "DataName", "Date", "RenderContext"}
MkArg(variant, value) == [variant |-> variant, value |-> value]

(***************************************************************************)
(* Vocabularies.  A raw token is identified with the set of vocabularies   *)
(* that contain it: the registries COMMANDS, FUNCTIONS, DATA_NAMES and the *)
(* parsers of TimeFrequency, NaiveDate and RenderContext are supplied from *)
(* outside arg.rs, and nothing in arg.rs keeps two of them disjoint.       *)
(***************************************************************************)
VocabNames == {"command", "function", "frequency", "name", "date", "display"}
Tokens == SUBSET VocabNames
COMMANDS == {s \in Tokens : "command" \in s}
FUNCTIONS == {s \in Tokens : "function" \in s}
DATA_NAMES == {s \in Tokens : "name" \in s}
ParsesAsTimeFrequency(s) == "frequency" \in s
ParsesAsDate(s) == "date" \in s
ParsesAsRenderContext(s) == "display" \in s

try_new_command(s) == IF s \in COMMANDS THEN Some(MkArg("Command", s)) ELSE NoneOpt
try_new_function(s) == IF s \in FUNCTIONS THEN Some(MkArg("Function", s)) ELSE NoneOpt
try_new_time_frequency(s) == IF ParsesAsTimeFrequency(s) THEN Some(MkArg("TimeFrequency", s)) ELSE NoneOpt
try_new_data_name(s) == IF s \in DATA_NAMES THEN Some(MkArg("DataName", s)) ELSE NoneOpt
try_new_date(s) == IF ParsesAsDate(s) THEN Some(MkArg("Date", s)) ELSE NoneOpt
try_new_render_context(s) == IF ParsesAsRenderContext(s) THEN Some(MkArg("RenderContext", s)) ELSE NoneOpt

\* the constructor a name stands for
TryNew(name, s) ==
    CASE name = "command" -> try_new_command(s)
      [] name = "function" -> try_new_function(s)
      [] name = "frequency" -> try_new_time_frequency(s)
      [] name = "name" -> try_new_data_name(s)
      [] name = "date" -> try_new_date(s)
      [] name = "display" -> try_new_render_context(s)

\* a plausible slip: a labelled value its variant rejects is tried as a bare token
from_labelled_str_fallback(name, s) ==
    IF name \notin {"command", "function", "frequency", "name", "date", "display"}
    THEN Err("UnknownLabel")
    ELSE LET a == TryNew(name, s)
             b == CHOOSE n \in s : TRUE
         IN  IF a.some THEN Ok(a.val)
             ELSE IF s # {} THEN Ok(TryNew(b, s).val) ELSE Err("InvalidValue")

\* Arg::from_labelled_str
from_labelled_str(name, s) ==
    IF name \notin {"command", "function", "frequency", "name", "date", "display"}
    THEN Err("UnknownLabel")
    ELSE LET a == TryNew(name, s)
         IN  IF a.some THEN Ok(a.val) ELSE Err("InvalidValue")

\* a plausible slip: the date constructor listed before the frequency one
ConstructorsDateFirst == <<"command", "function", "date", "name", "frequency", "display">>
\* the array of constructors that from_str walks, in its order
Constructors == <<"command", "function", "frequency", "name", "date", "display">>

RECURSIVE FromStrFrom(_, _)
FromStrFrom(i, s) ==
    IF i > Len(Constructors)
    THEN Err("UnresolvedToken")
    ELSE LET a == TryNew(Constructors[i], s)
         IN  IF a.some THEN Ok(a.val) ELSE FromStrFrom(i + 1, s)

\* <Arg as FromStr>::from_str
from_str(s) == FromStrFrom(1, s)

(***************************************************************************)
(* The labels a clause can carry: the names from_labelled_str knows and    *)
(* two it does not.                                                        *)
(***************************************************************************)
NoLabel == "<bare>"
Labels == VocabNames \cup {"series", "style"}

(***************************************************************************)
(* Idle values of the state of each part                                   *)
(***************************************************************************)
NoResult == Err("<none>")
IdleResolve == label = NoLabel /\ token = {} /\ arg = NoResult

(***************************************************************************)
(* Expression: the Selection, five optional fields (block.rs; the field    *)
(* names are those tree.rs reads).  A value is a number, None is 0.        *)
(***************************************************************************)
None == 0
Vals == 1..NumVals
Fields == {"command", "frequency", "data_name", "date", "display_type"}
Selections == [Fields -> Vals \cup {None}]
\* Expression::new
ExpressionNew == [f \in Fields |-> None]

\* the field an Arg of a variant fills; Function has no field in an Expression
FieldOf(variant) ==
    CASE variant = "Command" -> "command"
      [] variant = "TimeFrequency" -> "frequency"
      [] variant = "DataName" -> "data_name"
      [] variant = "Date" -> "date"
      [] variant = "RenderContext" -> "display_type"
      [] variant = "Function" -> "<none>"

\* Expression::fill_arg: fill the field of the Arg's variant if it is unset
fill_arg(e, a) ==
    LET f == FieldOf(a.variant)
    IN  IF f \in Fields /\ e[f] = None THEN [e EXCEPT ![f] = a.value] ELSE e

ArgPool == {MkArg(v, x) : v \in Variants, x \in Vals}
SeqsUpTo(S, n) == UNION {[1..k -> S] : k \in 0..n}

RECURSIVE FoldExprRev(_, _)
\* a plausible slip: the combination folded from its last Arg to its first
FoldExprRev(e, args) ==
    IF args = <<>> THEN e
    ELSE FoldExprRev(fill_arg(e, args[Len(args)]), SubSeq(args, 1, Len(args) - 1))

RECURSIVE FoldExpr(_, _)
\* group.into_iter().fold(init, |mut expr, arg| { expr.fill_arg(arg); expr })
FoldExpr(e, args) ==
    IF args = <<>> THEN e
    ELSE FoldExpr(fill_arg(e, Head(args)), Tail(args))

IdleFill == expr = ExpressionNew /\ filled = <<>>

(***************************************************************************)
(* Strings.  A String is a sequence of pieces: a literal character or      *)
(* word, the figure the calculation engine renders for an Expression, or   *)
(* the Display text of an ExpressionVariable.                              *)
(***************************************************************************)
Ch(c) == [ch |-> c, of |-> ExpressionNew]
Fig(e) == [ch |-> "<figure>", of |-> e]
Lbl(v) == [ch |-> "<label>", of |-> fill_arg(ExpressionNew, v)]
NL == Ch("\n")
BAR == Ch("|")
SP == Ch(" ")

\* the calculation engine (Command::try_from(&mut ctx) and its String): keyed by the command,
\* it fails on an Expression without one and otherwise renders the figure of that Expression
Calc(e) == IF e.command = None THEN Err("CalcError") ELSE Ok(<<Fig(e)>>)

\* Expression setters
set_command(e, v) == [e EXCEPT !.command = v]
set_frequency(e, v) == [e EXCEPT !.frequency = v]
set_data_name(e, v) == [e EXCEPT !.data_name = v]
set_date(e, v) == [e EXCEPT !.date = v]
set_display_type(e, v) == [e EXCEPT !.display_type = v]

\* a plausible slip: the ambient value is copied without looking at the node's own
NodeInheritOverwrite(value, c) ==
    LET v1 == IF c.command # None THEN set_command(value, c.command) ELSE value
        v2 == IF c.frequency # None THEN set_frequency(v1, c.frequency) ELSE v1
        v3 == IF c.data_name # None THEN set_data_name(v2, c.data_name) ELSE v2
        v4 == IF c.date # None THEN set_date(v3, c.date) ELSE v3
    IN  IF c.display_type # None THEN set_display_type(v4, c.display_type) ELSE v4

\* Node::render, the five if-let blocks: self.value after them
NodeInherit(value, c) ==
    LET v1 == IF value.command = None /\ c.command # None
              THEN set_command(value, c.command) ELSE value
        v2 == IF v1.frequency = None /\ c.frequency # None
              THEN set_frequency(v1, c.frequency) ELSE v1
        v3 == IF v2.data_name = None /\ c.data_name # None
              THEN set_data_name(v2, c.data_name) ELSE v2
        v4 == IF v3.date = None /\ c.date # None
              THEN set_date(v3, c.date) ELSE v3
    IN  IF v4.display_type = None /\ c.display_type # None
        THEN set_display_type(v4, c.display_type) ELSE v4

(***************************************************************************)
(* Components: Text, Node, Function::Expressions and a bare Expression     *)
(***************************************************************************)
Text(t) == [kind |-> "Text", text |-> t]
\* Node::new
NodeNew(value) == [kind |-> "Node", value |-> value, children |-> <<>>]
\* Node::add_child
add_child(n, child) == [n EXCEPT !.children = Append(@, child)]
FunctionExpressions(exprs) == [kind |-> "Function", exprs |-> exprs]
ExpressionLeaf(e) == [kind |-> "Expression", value |-> e]
NoNode == [kind |-> "<none>"]

\* <Expression as Component>::render: the Expression completed from the ambient one, then calculated
ExpressionRender(e, c) == Calc(NodeInherit(e, c))

RECURSIVE JoinSpace(_)
\* Vec<String>::join(" ")
JoinSpace(strs) ==
    IF strs = <<>> THEN <<>>
    ELSE IF Len(strs) = 1 THEN strs[1]
    ELSE strs[1] \o <<SP>> \o JoinSpace(Tail(strs))

RECURSIVE CollectRender(_, _)
\* exprs.into_iter().map(|expr| expr.render(ctx)).collect::<Result<Vec<String>>>()
CollectRender(exprs, c) ==
    IF exprs = <<>> THEN Ok(<<>>)
    ELSE LET h == ExpressionRender(Head(exprs), c)
         IN  IF ~h.ok THEN h
             ELSE LET t == CollectRender(Tail(exprs), c)
                  IN  IF t.ok THEN Ok(<<h.val>> \o t.val) ELSE t

\* <Function as Component>::render for Function::Expressions
FunctionRender(exprs, c) ==
    LET r == CollectRender(exprs, c)
    IN  IF r.ok THEN Ok(JoinSpace(r.val)) ELSE r

RECURSIVE Render(_, _)
RECURSIVE RenderChildren(_, _, _)
RECURSIVE RenderChildrenSkip(_, _, _)
\* a plausible slip: a child that fails is skipped and the loop goes on with what it has
RenderChildrenSkip(children, value, acc) ==
    IF children = <<>> THEN [children |-> <<>>, res |-> Ok(acc)]
    ELSE LET h == Render(Head(children), value)
             t == RenderChildrenSkip(Tail(children), value,
                                     IF h.res.ok THEN acc \o h.res.val ELSE acc)
         IN  [children |-> <<h.comp>> \o t.children, res |-> t.res]
\* Node::render, the loop over self.children: the children as the loop leaves them and its result
RenderChildren(children, value, acc) ==
    IF children = <<>> THEN [children |-> <<>>, res |-> Ok(acc)]
    ELSE LET h == Render(Head(children), value)
         IN  IF ~h.res.ok
             THEN [children |-> <<h.comp>> \o Tail(children), res |-> h.res]
             ELSE LET t == RenderChildren(Tail(children), value, acc \o h.res.val)
                  IN  [children |-> <<h.comp>> \o t.children, res |-> t.res]

RECURSIVE RenderAmbient(_, _)
\* a plausible slip: the children are rendered under the context the node was given, not under the
\* node's own Expression
RenderAmbient(c, ambient) ==
    CASE c.kind = "Text" -> [comp |-> c, res |-> Ok(c.text)]
      [] c.kind = "Expression" -> [comp |-> c, res |-> ExpressionRender(c.value, ambient)]
      [] c.kind = "Function" -> [comp |-> c, res |-> FunctionRender(c.exprs, ambient)]
      [] c.kind = "Node" ->
            LET value == NodeInherit(c.value, ambient)
                r == RenderChildren(c.children, ambient, <<>>)
            IN  [comp |-> [c EXCEPT !.value = value, !.children = r.children], res |-> r.res]
\* Component::render: the component after the call (render takes &mut self) and the Result<String>
Render(c, ambient) ==
    CASE c.kind = "Text" -> [comp |-> c, res |-> Ok(c.text)]
      [] c.kind = "Expression" -> [comp |-> c, res |-> ExpressionRender(c.value, ambient)]
      [] c.kind = "Function" -> [comp |-> c, res |-> FunctionRender(c.exprs, ambient)]
      [] c.kind = "Node" ->
            LET value == NodeInherit(c.value, ambient)
                r == RenderChildren(c.children, value, <<>>)
            IN  [comp |-> [c EXCEPT !.value = value, !.children = r.children], res |-> r.res]

\* the Expressions a node, an ambient context or a table base starts with
NumSet(e) == Cardinality({f \in Fields : e[f] # None})
\* over the least and the greatest value
PoolVals == {1, NumVals}
SelPool == {e \in [Fields -> PoolVals \cup {None}] : NumSet(e) <= MaxSet}
\* the children add_child is called with
ChildPool == {Text(<<Ch("x")>>), ExpressionLeaf(ExpressionNew)}

IdleRender == node = NoNode /\ ctx = ExpressionNew /\ rendered = NoResult /\ clause = NoNode
IdleTable == table = NoNode
IdleExpand == groups = <<>> /\ expressions = NoResult

(***************************************************************************)
(* Token resolution: ArgGroup::try_from on a bare and on a labelled token  *)
(***************************************************************************)
ParseBare(s) ==
    /\ op' = "from_str"
    /\ label' = NoLabel
    /\ token' = s
    /\ arg' = from_str(s)
    /\ UNCHANGED <<fillVars, renderVars, clause, table, expandVars>>

ParseLabelled(l, s) ==
    /\ op' = "from_labelled_str"
    /\ label' = l
    /\ token' = s
    /\ arg' = from_labelled_str(l, s)
    /\ UNCHANGED <<fillVars, renderVars, clause, table, expandVars>>

InitResolve == op = "init" /\ IdleResolve /\ IdleFill /\ IdleRender /\ IdleTable /\ IdleExpand
NextResolve ==
    \/ \E s \in Tokens : ParseBare(s)
    \/ \E l \in Labels, s \in Tokens : ParseLabelled(l, s)
SpecResolve == InitResolve /\ [][NextResolve]_vars

(***************************************************************************)
(* Filling one Expression: the fold of a combination of Args into a fresh  *)
(* Expression, and further fill_arg calls on it.                           *)
(***************************************************************************)
FoldGroup ==
    /\ op = "init"
    /\ op' = "fold"
    /\ \E args \in SeqsUpTo(ArgPool, MaxArgs) :
          /\ expr' = FoldExpr(ExpressionNew, args)
          /\ filled' = args
    /\ UNCHANGED <<resolveVars, renderVars, clause, table, expandVars>>

FillArg(a) ==
    /\ Len(filled) < MaxArgs
    /\ op' = "fill_arg"
    /\ expr' = fill_arg(expr, a)
    /\ filled' = Append(filled, a)
    /\ UNCHANGED <<resolveVars, renderVars, clause, table, expandVars>>

InitFill == op = "init" /\ IdleResolve /\ IdleFill /\ IdleRender /\ IdleTable /\ IdleExpand
NextFill ==
    \/ FoldGroup
    \/ \E a \in ArgPool : FillArg(a)
SpecFill == InitFill /\ [][NextFill]_vars

(***************************************************************************)
(* A scope tree built with Node::new and add_child, then rendered once     *)
(* under an ambient Expression.                                            *)
(***************************************************************************)
NewNode ==
    /\ node = NoNode
    /\ op' = "new"
    /\ \E value \in SelPool : node' = NodeNew(value)
    /\ UNCHANGED <<ctx, rendered, clause, resolveVars, fillVars, table, expandVars>>

AddChild(child) ==
    /\ node # NoNode
    /\ rendered = NoResult
    /\ Len(node.children) < MaxChildren
    /\ op' = "add_child"
    /\ node' = add_child(node, child)
    /\ UNCHANGED <<ctx, rendered, clause, resolveVars, fillVars, table, expandVars>>

RenderNode ==
    /\ node # NoNode
    /\ rendered = NoResult
    /\ op' = "render"
    /\ \E ambient \in SelPool :
          /\ ctx' = ambient
          /\ node' = Render(node, ambient).comp
          /\ rendered' = Render(node, ambient).res
    /\ UNCHANGED <<clause, resolveVars, fillVars, table, expandVars>>

InitRender == op = "init" /\ IdleResolve /\ IdleFill /\ IdleRender /\ IdleTable /\ IdleExpand
NextRender ==
    \/ NewNode
    \/ \E child \in ChildPool : AddChild(child)
    \/ RenderNode
SpecRender == InitRender /\ [][NextRender]_vars

(***************************************************************************)
(* C1  A bare token resolves to the Arg of the first variant, in the order *)
(* command, function, frequency, data-series name, date, display style,    *)
(* whose vocabulary accepts it; it is unresolved only when none does.      *)
(***************************************************************************)
Rank(name) ==
    CASE name = "command" -> 1
      [] name = "function" -> 2
      [] name = "frequency" -> 3
      [] name = "name" -> 4
      [] name = "date" -> 5
      [] name = "display" -> 6
VariantOfName(name) ==
    CASE name = "command" -> "Command"
      [] name = "function" -> "Function"
      [] name = "frequency" -> "TimeFrequency"
      [] name = "name" -> "DataName"
      [] name = "date" -> "Date"
      [] name = "display" -> "RenderContext"
Best(s) == CHOOSE n \in s : \A m \in s : Rank(n) <= Rank(m)

\* C1: a bare token yields the highest-priority accepting variant, and fails only if no variant accepts it
C1_ResolutionPriority ==
    op = "from_str" =>
        IF token = {}
        THEN arg = Err("UnresolvedToken")
        ELSE arg = Ok(MkArg(VariantOfName(Best(token)), token))

C1_Witness ==
    /\ op = "from_str"
    /\ token = {"frequency", "name", "display"}
    /\ arg.ok
    /\ arg.val.variant = "TimeFrequency"

(***************************************************************************)
(* C2  A labelled token goes to the constructor of its label only.         *)
(***************************************************************************)
RecognizedLabels == {"command", "function", "frequency", "name", "date", "display"}

\* C2 (as amended): a label outside the six recognized names gives UnknownLabel; a recognized label gives
\* InvalidValue when its own variant rejects the value, whatever other variants accept, and otherwise
\* the Arg of exactly the label's variant
C2_LabelledDispatch ==
    op = "from_labelled_str" =>
        IF label \notin RecognizedLabels
        THEN arg = Err("UnknownLabel")
        ELSE IF label \in token
             THEN arg = Ok(MkArg(VariantOfName(label), token))
             ELSE arg = Err("InvalidValue")

C2_Witness ==
    /\ op = "from_labelled_str"
    /\ label = "date"
    /\ token = {"command", "frequency"}
    /\ arg = Err("InvalidValue")

\* C2 (as stated): the names that do not give UnknownLabel are five
C2_FiveRecognizedNames ==
    op = "from_labelled_str" =>
        /\ Cardinality({l \in Labels : from_labelled_str(l, token) # Err("UnknownLabel")}) = 5
        /\ (arg # Err("UnknownLabel") =>
                IF label \in token
                THEN arg = Ok(MkArg(VariantOfName(label), token))
                ELSE arg = Err("InvalidValue"))

(***************************************************************************)
(* C3  Set-once: a field of an Expression keeps its first value.           *)
(***************************************************************************)
RECURSIVE FirstOf(_, _)
\* the value of the first Arg of args that is of field f, None when there is none
FirstOf(args, f) ==
    IF args = <<>> THEN None
    ELSE IF FieldOf(Head(args).variant) = f THEN Head(args).value
    ELSE FirstOf(Tail(args), f)

\* C3: a fill never changes a field that holds a value, and after folding and filling a sequence of
\* Args each field holds the value of the first Arg of its variant
C3_SetOnce ==
    /\ [](op \in {"fold", "fill_arg"} => \A f \in Fields : expr[f] = FirstOf(filled, f))
    /\ [][\A f \in Fields : expr[f] # None => expr'[f] = expr[f]]_vars

C3_Witness ==
    /\ op = "fill_arg"
    /\ Len(filled) >= 2
    /\ filled[1].variant = "Command"
    /\ filled[Len(filled)].variant = "Command"
    /\ filled[1].value # filled[Len(filled)].value
    /\ expr.command = filled[1].value

(***************************************************************************)
(* C4  Scope inheritance in Node::render                                   *)
(***************************************************************************)
\* C4: after a render each field of the node is its own value if it had one, else the ambient value,
\* else unset
C4_ScopeInheritance ==
    [][op' = "render" =>
        \A f \in Fields :
            node'.value[f] = IF node.value[f] # None THEN node.value[f] ELSE ctx'[f]]_vars

C4_Witness ==
    /\ op = "render"
    /\ ctx.command = NumVals
    /\ node.value.command = 1
    /\ ctx.date = 1
    /\ node.value.date = 1
    /\ node.value.frequency = None

(***************************************************************************)
(* The cross-section Table (table.rs)                                      *)
(***************************************************************************)
\* the ExpressionVariables of the axes: commands and frequencies, as in test_table
AxisPool == {MkArg(v, x) : v \in {"Command", "TimeFrequency"}, x \in PoolVals}
\* the base Expressions a Table is made over: empty, or one field set
BasePool == {e \in [Fields -> {None, NumVals}] : NumSet(e) <= 1}
\* Table::new
TableNew(rows, cols, base) == [rows |-> rows, cols |-> cols, ctx |-> base]

\* <&Expression as Add<ExpressionVariable>>::add: the variable fills its field if it is unset
ExprAdd(e, v) == fill_arg(e, v)

\* a plausible slip: the column variable merged before the row variable
CellCtxColFirst(base, row, col) == ExprAdd(ExprAdd(base, col), row)
\* let ctx = value.ctx + row.clone(); let mut ctx = &ctx + col.clone();
CellCtx(base, row, col) == ExprAdd(ExprAdd(base, row), col)

\* a plausible slip: one separator per row
SeparatorCountRows(t) == Len(t.rows) + 1
\* for _ in 0..&value.cols.len() + 1
SeparatorCount(t) == Len(t.cols) + 1

RECURSIVE ColumnHeadersRev(_)
\* a plausible slip: the column headers pushed in reverse
ColumnHeadersRev(cols) ==
    IF cols = <<>> THEN <<>>
    ELSE ColumnHeadersRev(Tail(cols)) \o <<SP, Lbl(Head(cols)), SP, BAR>>

RECURSIVE ColumnHeaders(_)
\* for col in &value.cols { table.push_str(&format!(" {} |", col)) }
ColumnHeaders(cols) ==
    IF cols = <<>> THEN <<>>
    ELSE <<SP, Lbl(Head(cols)), SP, BAR>> \o ColumnHeaders(Tail(cols))

RECURSIVE Separators(_)
\* table.push_str(" --- |"), n times
Separators(n) ==
    IF n = 0 THEN <<>> ELSE <<SP, Ch("---"), SP, BAR>> \o Separators(n - 1)

RECURSIVE RowCells(_, _, _)
\* the inner loop: one " {} |" per column, or the first error
RowCells(base, row, cols) ==
    IF cols = <<>> THEN Ok(<<>>)
    ELSE LET cell == Calc(CellCtx(base, row, Head(cols)))
         IN  IF ~cell.ok THEN cell
             ELSE LET t == RowCells(base, row, Tail(cols))
                  IN  IF t.ok THEN Ok(<<SP>> \o cell.val \o <<SP, BAR>> \o t.val) ELSE t

RECURSIVE TableBody(_, _, _)
\* the outer loop: "\n| {} |" and the cells of each row, or the first error
TableBody(base, rows, cols) ==
    IF rows = <<>> THEN Ok(<<>>)
    ELSE LET r == RowCells(base, Head(rows), cols)
         IN  IF ~r.ok THEN r
             ELSE LET t == TableBody(base, Tail(rows), cols)
                  IN  IF t.ok
                      THEN Ok(<<NL, BAR, SP, Lbl(Head(rows)), SP, BAR>> \o r.val \o t.val)
                      ELSE t

\* <String as TryFrom<Table>>::try_from
TableTryFrom(t) ==
    LET head == <<NL, BAR, SP, Ch("_"), SP, BAR>> \o ColumnHeaders(t.cols)
                \o <<NL, BAR>> \o Separators(SeparatorCount(t))
        body == TableBody(t.ctx, t.rows, t.cols)
    IN  IF body.ok THEN Ok(head \o body.val \o <<NL>>) ELSE body

NewTable ==
    /\ table = NoNode
    /\ op' = "Table::new"
    /\ \E rows \in SeqsUpTo(AxisPool, MaxAxis), cols \in SeqsUpTo(AxisPool, MaxAxis), base \in BasePool :
          table' = TableNew(rows, cols, base)
    /\ UNCHANGED <<renderVars, clause, resolveVars, fillVars, expandVars>>

RenderTable ==
    /\ table # NoNode
    /\ rendered = NoResult
    /\ op' = "try_from"
    /\ rendered' = TableTryFrom(table)
    /\ UNCHANGED <<node, ctx, table, clause, resolveVars, fillVars, expandVars>>

InitTable == op = "init" /\ IdleResolve /\ IdleFill /\ IdleRender /\ IdleTable /\ IdleExpand
NextTable ==
    \/ NewTable
    \/ RenderTable
SpecTable == InitTable /\ [][NextTable]_vars

(***************************************************************************)
(* Reading a rendered table back: its lines, and the cells of a line       *)
(***************************************************************************)
RECURSIVE SplitFrom(_, _, _, _, _)
SplitFrom(str, sep, i, cur, acc) ==
    IF i > Len(str) THEN Append(acc, cur)
    ELSE IF str[i] = sep THEN SplitFrom(str, sep, i + 1, <<>>, Append(acc, cur))
    ELSE SplitFrom(str, sep, i + 1, Append(cur, str[i]), acc)
\* the pieces of str between the occurrences of sep
SplitOn(str, sep) == SplitFrom(str, sep, 1, <<>>, <<>>)
NotSpace(piece) == piece # SP
\* the cells of "| a | b |", each without its padding
CellsOf(line) ==
    LET segs == SplitOn(line, BAR)
    IN  [k \in 1..(Len(segs) - 2) |-> SelectSeq(segs[k + 1], NotSpace)]
WellFormedLine(line) ==
    LET segs == SplitOn(line, BAR)
    IN  Len(segs) >= 2 /\ segs[1] = <<>> /\ segs[Len(segs)] = <<>>
TableLines == SplitOn(rendered.val, NL)
TableRendered == op = "try_from" /\ rendered.ok

(***************************************************************************)
(* C5  Each cell is evaluated under base, then row variable, then column   *)
(* variable, each filling only what is still unset.                        *)
(***************************************************************************)
\* what field f of the cell of a row and a column must be
CellField(base, row, col, f) ==
    IF base[f] # None THEN base[f]
    ELSE IF FieldOf(row.variant) = f THEN row.value
    ELSE IF FieldOf(col.variant) = f THEN col.value
    ELSE None

\* C5: every value cell of a rendered table is the figure of the Expression whose fields are the
\* base's where set, else the row variable's, else the column variable's
C5_CellMergePrecedence ==
    TableRendered =>
        \A i \in 1..Len(table.rows) :
            LET cells == CellsOf(TableLines[3 + i])
            IN  \A j \in 1..Len(table.cols) :
                LET cell == cells[j + 1]
                IN
                /\ Len(cell) = 1
                /\ cell[1].ch = "<figure>"
                /\ \A f \in Fields :
                      cell[1].of[f] = CellField(table.ctx, table.rows[i], table.cols[j], f)

C5_Witness ==
    /\ TableRendered
    /\ table.ctx.command = None
    /\ table.ctx.frequency = NumVals
    /\ Len(table.rows) = 2
    /\ table.rows[1] = MkArg("Command", 1)
    /\ table.rows[2] = MkArg("TimeFrequency", 1)
    /\ table.cols = <<MkArg("Command", NumVals)>>

(***************************************************************************)
(* C6  Table shape                                                         *)
(***************************************************************************)
\* C6: a rendered table is a header line of the corner cell and the C column labels in order, one
\* separator line, and R body lines in row order, each the row label and C value cells
C6_TableShape ==
    TableRendered =>
        LET R == Len(table.rows)
            C == Len(table.cols)
        IN  /\ Len(TableLines) = R + 4
            /\ TableLines[1] = <<>>
            /\ TableLines[R + 4] = <<>>
            /\ \A k \in 2..(R + 3) : WellFormedLine(TableLines[k])
            /\ CellsOf(TableLines[2]) = <<<<Ch("_")>>>> \o [j \in 1..C |-> <<Lbl(table.cols[j])>>]
            /\ Len(CellsOf(TableLines[3])) >= 1
            /\ \A k \in 1..Len(CellsOf(TableLines[3])) : CellsOf(TableLines[3])[k] = <<Ch("---")>>
            /\ \A i \in 1..R :
                  LET cells == CellsOf(TableLines[3 + i])
                  IN  /\ Len(cells) = C + 1
                      /\ cells[1] = <<Lbl(table.rows[i])>>
                      /\ \A j \in 1..C : Len(cells[j + 1]) = 1 /\ cells[j + 1][1].ch = "<figure>"

C6_Witness ==
    /\ TableRendered
    /\ Len(table.rows) = 1
    /\ Len(table.cols) = 2
    /\ table.cols[1] # table.cols[2]

(***************************************************************************)
(* C7  The number of header separators                                     *)
(***************************************************************************)
NumSeparators == Len(SelectSeq(rendered.val, LAMBDA piece : piece = Ch("---")))

\* C7 (as amended): a rendered table has exactly cols.len()+1 header separators, one per cell of the
\* header line, whatever the length of the row axis
C7_SeparatorsPerColumn ==
    TableRendered =>
        /\ NumSeparators = Len(table.cols) + 1
        /\ NumSeparators = Len(CellsOf(TableLines[2]))

C7_Witness ==
    /\ TableRendered
    /\ Len(table.rows) = 2
    /\ Len(table.cols) = 1

\* C7 (as stated): a rendered table has exactly rows.len()+1 header separators
C7_SeparatorsPerRow == TableRendered => NumSeparators = Len(table.rows) + 1

(***************************************************************************)
(* ArgGroup and the expansion of a Vec<ArgGroup> into Expressions          *)
(***************************************************************************)
GroupArg(a) == [kind |-> "Arg", arg |-> a]
GroupCollection(as) == [kind |-> "Collection", args |-> as]
GroupNamedCollection(n, as) == [kind |-> "NamedCollection", name |-> n, args |-> as]

\* a plausible slip: a single Arg taken for an empty collection
items_arg_empty(g) ==
    CASE g.kind \in {"Collection", "NamedCollection"} -> g.args
      [] g.kind = "Arg" -> <<>>
\* <ArgGroup as ItemOrCollection>::items: the name of a NamedCollection is dropped
items(g) ==
    CASE g.kind \in {"Collection", "NamedCollection"} -> g.args
      [] g.kind = "Arg" -> <<g.arg>>

\* ItemOrCollection::collection: the items of every group, in group order
collection(gs) == [i \in 1..Len(gs) |-> items(gs[i])]

RECURSIVE Prepend(_, _)
\* x put in front of every sequence of tails
Prepend(x, tails) == [k \in 1..Len(tails) |-> <<x>> \o tails[k]]
RECURSIVE PrependEach(_, _)
PrependEach(xs, tails) ==
    IF xs = <<>> THEN <<>> ELSE Prepend(Head(xs), tails) \o PrependEach(Tail(xs), tails)
RECURSIVE mutate(_)
\* flatten::mutate: the cross product of the item lists, the last list varying fastest
mutate(lists) ==
    IF lists = <<>> THEN << <<>> >> ELSE PrependEach(Head(lists), mutate(Tail(lists)))

\* var_groups.into_iter().map(|group| group.into_iter().fold(Expression::new(), ..)).collect()
FoldAll(combos) == [k \in 1..Len(combos) |-> FoldExpr(ExpressionNew, combos[k])]

\* Function::try_new_expression
try_new_expression(gs) == Ok(FunctionExpressions(FoldAll(mutate(collection(gs)))))
\* Function::from_groups
from_groups(gs) == try_new_expression(gs)
\* Function::from_labelled_groups; "table" needs flatten::find_table and is left out
from_labelled_groups(name, gs) ==
    IF name = "expression" THEN try_new_expression(gs) ELSE Err("UnknownFunction")

\* the Args of the groups: two commands and a frequency
ExpandPool == {MkArg("Command", 1), MkArg("Command", NumVals), MkArg("TimeFrequency", 1)}
\* the members of a named collection of length k: a command, a frequency, a command, ..
NamedMembers(k) ==
    [i \in 1..k |-> IF i % 2 = 1 THEN MkArg("Command", 1) ELSE MkArg("TimeFrequency", 1)]
GroupNames == {"rows", "cols"}
GroupPool ==
    {GroupArg(a) : a \in ExpandPool}
    \cup {GroupCollection(as) : as \in SeqsUpTo(ExpandPool, MaxColl)}
    \cup {GroupNamedCollection(n, NamedMembers(k)) : n \in GroupNames, k \in 0..MaxColl}

FromGroups ==
    /\ op = "init"
    /\ op' = "from_groups"
    /\ \E gs \in SeqsUpTo(GroupPool, MaxGroups) :
          /\ groups' = gs
          /\ expressions' = from_groups(gs)
    /\ UNCHANGED <<renderVars, clause, table, resolveVars, fillVars>>

InitExpand == op = "init" /\ IdleResolve /\ IdleFill /\ IdleRender /\ IdleTable /\ IdleExpand
NextExpand == FromGroups
SpecExpand == InitExpand /\ [][NextExpand]_vars

(***************************************************************************)
(* C9  Combinatorial expansion                                             *)
(***************************************************************************)
Expanded == op = "from_groups"
\* no two collections of gs carry the same name
DistinctNames(gs) ==
    \A i, j \in 1..Len(gs) :
        (i < j /\ gs[i].kind = "NamedCollection" /\ gs[j].kind = "NamedCollection")
            => gs[i].name # gs[j].name
\* the length of the i-th axis: a collection's length, 1 for a single Arg
AxisLen(gs, i) == IF gs[i].kind = "Arg" THEN 1 ELSE Len(gs[i].args)
RECURSIVE ProductFrom(_, _)
\* the product of the axis lengths i, i+1, ..
ProductFrom(gs, i) == IF i > Len(gs) THEN 1 ELSE AxisLen(gs, i) * ProductFrom(gs, i + 1)
\* the member of axis i in the k-th combination (k from 0) of the lexicographic order
MemberAt(gs, i, k) ==
    IF gs[i].kind = "Arg" THEN gs[i].arg
    ELSE gs[i].args[((k \div ProductFrom(gs, i + 1)) % AxisLen(gs, i)) + 1]

\* C9: with no name shared, there is one Expression per element of the cross product of the
\* collections, in lexicographic order of groups and members, the k-th being the fold of the k-th
\* combination, which holds every single Arg
C9_CrossProduct ==
    (Expanded /\ DistinctNames(groups)) =>
        /\ expressions.ok
        /\ Len(expressions.val.exprs) = ProductFrom(groups, 1)
        /\ \A k \in 1..Len(expressions.val.exprs) :
              LET combo == [i \in 1..Len(groups) |-> MemberAt(groups, i, k - 1)]
              IN  /\ \A i \in 1..Len(groups) : groups[i].kind = "Arg" => combo[i] = groups[i].arg
                  /\ \A f \in Fields : expressions.val.exprs[k][f] = FirstOf(combo, f)

C9_Witness ==
    /\ Expanded
    /\ groups = <<GroupCollection(<<MkArg("Command", 1), MkArg("Command", NumVals)>>),
                  GroupCollection(<<MkArg("TimeFrequency", 1), MkArg("Command", 1)>>)>>
    /\ Len(expressions.val.exprs) = 4
    /\ expressions.val.exprs[3].command = NumVals
    /\ expressions.val.exprs[3].frequency = 1
    /\ expressions.val.exprs[4].frequency = None

(***************************************************************************)
(* C10  Named collections of the same name                                 *)
(***************************************************************************)
\* two collections of gs carry the same name and differ in length
NameMismatch(gs) ==
    \E i, j \in 1..Len(gs) :
        /\ i < j
        /\ gs[i].kind = "NamedCollection" /\ gs[j].kind = "NamedCollection"
        /\ gs[i].name = gs[j].name
        /\ Len(gs[i].args) # Len(gs[j].args)
\* axis i is a named collection whose name an earlier collection carries
BoundToEarlier(gs, i) ==
    /\ gs[i].kind = "NamedCollection"
    /\ \E j \in 1..(i - 1) : gs[j].kind = "NamedCollection" /\ gs[j].name = gs[i].name
RECURSIVE ZipProductFrom(_, _)
\* the product of the axis lengths, the collections of one name counted once
ZipProductFrom(gs, i) ==
    IF i > Len(gs) THEN 1
    ELSE (IF BoundToEarlier(gs, i) THEN 1 ELSE AxisLen(gs, i)) * ZipProductFrom(gs, i + 1)

\* C10: collections of one name are iterated in parallel, so they count once in the number of
\* Expressions, and the expansion fails when their lengths differ
C10_NamedZip ==
    Expanded =>
        IF NameMismatch(groups)
        THEN expressions = Err("ExpansionMismatch")
        ELSE expressions.ok /\ Len(expressions.val.exprs) = ZipProductFrom(groups, 1)

(***************************************************************************)
(* Clauses and their lowering to components (Clause::to_component)         *)
(***************************************************************************)
ClauseText(t) == [kind |-> "Text", text |-> t]
ClauseFunction(gs) == [kind |-> "Function", groups |-> gs]
ClauseNamedFunction(n, gs) == [kind |-> "NamedFunction", name |-> n, groups |-> gs]
ClauseBlock(gs, cs) == [kind |-> "Block", groups |-> gs, clauses |-> cs]

\* Node::with_expr: the node with its children, carrying the given Expression
with_expr(n, e) == [n EXCEPT !.value = e]

\* mutate(ItemOrCollection::collection(groups)).into_iter().map(fold).collect::<Vec<Expression>>()
BlockExprs(gs) == FoldAll(mutate(collection(gs)))

RECURSIVE ReplicateFirstOnly(_, _, _)
\* a plausible slip: every child scope node carries the first Expression
ReplicateFirstOnly(parent, base_node, exprs) ==
    IF exprs = <<>> THEN parent
    ELSE ReplicateFirstOnly(add_child(parent, with_expr(base_node, exprs[1])), base_node,
                            IF Len(exprs) = 1 THEN <<>> ELSE <<exprs[1]>> \o Tail(Tail(exprs)))

RECURSIVE Replicate(_, _, _)
\* exprs.into_iter().fold(Node::new(..), |mut parent, child_expr| { parent.add_child(..); parent })
Replicate(parent, base_node, exprs) ==
    IF exprs = <<>> THEN parent
    ELSE Replicate(add_child(parent, with_expr(base_node, Head(exprs))), base_node, Tail(exprs))

RECURSIVE to_component(_)
RECURSIVE LowerChildren(_, _)
\* clauses.into_iter().try_fold(Node::new(..), |mut node, clause| { node.add_child(..?); Ok(node) })
LowerChildren(n, clauses) ==
    IF clauses = <<>> THEN Ok(n)
    ELSE LET c == to_component(Head(clauses))
         IN  IF ~c.ok THEN c ELSE LowerChildren(add_child(n, c.val), Tail(clauses))

\* Clause::to_component
to_component(c) ==
    CASE c.kind = "Function" -> from_groups(c.groups)
      [] c.kind = "NamedFunction" -> from_labelled_groups(c.name, c.groups)
      [] c.kind = "Block" ->
            LET exprs == BlockExprs(c.groups)
                base_node == LowerChildren(NodeNew(ExpressionNew), c.clauses)
            IN  IF ~base_node.ok THEN base_node
                ELSE Ok(Replicate(NodeNew(ExpressionNew), base_node.val, exprs))
      [] c.kind = "Text" -> Ok(Text(c.text))

\* the child clauses of a block: text, a function call without arguments, a function of an unknown
\* name, and a nested block
ChildClauses ==
    {ClauseText(<<Ch("x")>>),
     ClauseFunction(<<>>),
     ClauseNamedFunction("chart", <<>>),
     ClauseBlock(<<GroupCollection(<<MkArg("TimeFrequency", 1), MkArg("Command", 1)>>)>>,
                 <<ClauseText(<<Ch("y")>>), ClauseFunction(<<>>)>>)}
\* the members of a header collection of length k: the least frequency, the greatest, the least, ..
HeaderMembers(k) == [i \in 1..k |-> MkArg("TimeFrequency", IF i % 2 = 1 THEN 1 ELSE NumVals)]
\* the header groups of a block: a single command, a single frequency, collections of frequencies
HeaderPool ==
    {GroupArg(MkArg("Command", 1)), GroupArg(MkArg("TimeFrequency", NumVals))}
    \cup {GroupCollection(HeaderMembers(k)) : k \in 0..MaxColl}
\* the ambient Expressions a lowered block is rendered under
BlockAmbients == {ExpressionNew, fill_arg(ExpressionNew, MkArg("Command", NumVals))}

LowerBlock ==
    /\ op = "init"
    /\ \E gs \in SeqsUpTo(HeaderPool, MaxGroups), cs \in SeqsUpTo(ChildClauses, MaxChildren) :
          LET c == ClauseBlock(gs, cs)
              r == to_component(c)
          IN  /\ clause' = c
              /\ node' = IF r.ok THEN r.val ELSE NoNode
              /\ op' = IF r.ok THEN "to_component" ELSE "to_component_failed"
    /\ UNCHANGED <<ctx, rendered, table, resolveVars, fillVars, expandVars>>

RenderBlock ==
    /\ op = "to_component"
    /\ op' = "render"
    /\ \E ambient \in BlockAmbients :
          /\ ctx' = ambient
          /\ node' = Render(node, ambient).comp
          /\ rendered' = Render(node, ambient).res
    /\ UNCHANGED <<clause, table, resolveVars, fillVars, expandVars>>

InitBlock == op = "init" /\ IdleResolve /\ IdleFill /\ IdleRender /\ IdleTable /\ IdleExpand
NextBlock == LowerBlock \/ RenderBlock
SpecBlock == InitBlock /\ [][NextBlock]_vars

(***************************************************************************)
(* C8  Block replication                                                   *)
(***************************************************************************)
\* the child subtree of the lowered block: the children of the node its child clauses lower to
ChildSubtree == LowerChildren(NodeNew(ExpressionNew), clause.clauses).val.children
RECURSIVE ConcatRenders(_, _, _)
\* the child subtree rendered once per Expression of es, in order, under the ambient Expression:
\* the outputs one after the other, or the first error
ConcatRenders(kids, es, ambient) ==
    IF es = <<>> THEN Ok(<<>>)
    ELSE LET h == RenderChildren(kids, NodeInherit(Head(es), ambient), <<>>).res
         IN  IF ~h.ok THEN h
             ELSE LET t == ConcatRenders(kids, Tail(es), ambient)
                  IN  IF t.ok THEN Ok(h.val \o t.val) ELSE t

\* C8: a lowered block is a node with one child scope node per Expression of its header, the i-th
\* carrying the i-th Expression and each holding the child subtree; its render is the child subtree
\* rendered once per Expression, in order
C8_BlockReplication ==
    LET es == BlockExprs(clause.groups)
    IN  /\ op = "to_component" =>
              /\ node.kind = "Node"
              /\ Len(node.children) = Len(es)
              /\ \A i \in 1..Len(es) :
                    /\ node.children[i].kind = "Node"
                    /\ node.children[i].value = es[i]
                    /\ node.children[i].children = ChildSubtree
        /\ op = "render" => rendered = ConcatRenders(ChildSubtree, es, ctx)

C8_Witness ==
    /\ op = "render"
    /\ clause = ClauseBlock(<<GroupCollection(<<MkArg("TimeFrequency", 1), MkArg("TimeFrequency", NumVals)>>)>>,
                            <<ClauseText(<<Ch("x")>>)>>)
    /\ node.children[1].value.frequency = 1
    /\ node.children[2].value.frequency = NumVals
    /\ rendered = Ok(<<Ch("x"), Ch("x")>>)

(***************************************************************************)
(* C11  Fail-fast rendering and lowering                                   *)
(***************************************************************************)
\* the children of a rendered node: text, a bare Expression, and a Function of two Expressions of
\* which only the first has a command
FailPool ==
    {Text(<<Ch("x")>>),
     ExpressionLeaf(ExpressionNew),
     FunctionExpressions(<<fill_arg(ExpressionNew, MkArg("Command", 1)), ExpressionNew>>)}

\* one of the three is run from the start: a node is built and rendered, a table is made and
\* rendered, or a block is lowered and the component rendered
InitFailFast == op = "init" /\ IdleResolve /\ IdleFill /\ IdleRender /\ IdleTable /\ IdleExpand
NextFailFast ==
    \/ table = NoNode /\ clause = NoNode /\ NewNode
    \/ table = NoNode /\ clause = NoNode /\ \E child \in FailPool : AddChild(child)
    \/ table = NoNode /\ clause = NoNode /\ RenderNode
    \/ node = NoNode /\ clause = NoNode /\ NewTable
    \/ node = NoNode /\ clause = NoNode /\ RenderTable
    \/ LowerBlock
    \/ RenderBlock
SpecFailFast == InitFailFast /\ [][NextFailFast]_vars

RECURSIVE LeafCalcs(_, _)
RECURSIVE LeafCalcsOf(_, _)
\* the results of the leaf calculations of the children of a node, left to right
LeafCalcsOf(children, value) ==
    IF children = <<>> THEN <<>>
    ELSE LeafCalcs(Head(children), value) \o LeafCalcsOf(Tail(children), value)
\* the result of every leaf calculation under a component, in document order, each leaf calculated
\* whether or not an earlier one failed
LeafCalcs(c, ambient) ==
    CASE c.kind = "Text" -> <<>>
      [] c.kind = "Expression" -> <<Calc(NodeInherit(c.value, ambient))>>
      [] c.kind = "Function" ->
            [i \in 1..Len(c.exprs) |-> Calc(NodeInherit(c.exprs[i], ambient))]
      [] c.kind = "Node" -> LeafCalcsOf(c.children, NodeInherit(c.value, ambient))
\* the result of every cell calculation of a table
CellCalcs(t) ==
    {Calc(ExprAdd(ExprAdd(t.ctx, t.rows[i]), t.cols[j])) : i \in 1..Len(t.rows), j \in 1..Len(t.cols)}
\* the first failure of a sequence of results
FirstFailure(calcs) ==
    calcs[CHOOSE i \in 1..Len(calcs) : ~calcs[i].ok /\ \A j \in 1..(i - 1) : calcs[j].ok]

\* C11: a render of a node (built by hand or lowered from a block) in which a leaf calculation fails
\* returns the first such error and no string, and succeeds otherwise; a table render in which a
\* cell calculation fails returns that error and no table; a block one of whose child clauses does
\* not lower is not lowered, and no component is produced
C11_FailFast ==
    /\ op = "render" =>
          LET calcs == LeafCalcs(node, ctx)
          IN  IF \E i \in 1..Len(calcs) : ~calcs[i].ok
              THEN rendered = FirstFailure(calcs) /\ ~rendered.ok /\ "val" \notin DOMAIN rendered
              ELSE rendered.ok
    /\ op = "try_from" =>
          IF \E r \in CellCalcs(table) : ~r.ok
          THEN rendered \in CellCalcs(table) /\ ~rendered.ok /\ "val" \notin DOMAIN rendered
          ELSE rendered.ok
    /\ clause # NoNode =>
          IF \E i \in 1..Len(clause.clauses) : ~to_component(clause.clauses[i]).ok
          THEN op = "to_component_failed" /\ node = NoNode /\ rendered = NoResult
          ELSE op \in {"to_component", "render"} /\ node.kind = "Node"

\* a node without a command rendered under an ambient Expression without one: its text child and
\* the first Expression of its Function render, the second Expression fails, and the render is
\* that error
C11_Witness ==
    /\ op = "render"
    /\ clause = NoNode
    /\ node.value.command = None
    /\ ctx.command = None
    /\ node.children = <<Text(<<Ch("x")>>), FunctionExpressions(<<fill_arg(ExpressionNew, MkArg("Command", 1)), ExpressionNew>>)>>
    /\ rendered = Err("CalcError")

(***************************************************************************)
(* C12  Node rendering is a pre-order, top-down traversal                  *)
(***************************************************************************)
\* the children of the rendered node: text, a scope that sets its own date over one bare
\* Expression, and a scope that sets nothing over one bare Expression
ScopePool ==
    {Text(<<Ch("x")>>),
     add_child(NodeNew(fill_arg(ExpressionNew, MkArg("Date", 1))), ExpressionLeaf(ExpressionNew)),
     add_child(NodeNew(ExpressionNew), ExpressionLeaf(ExpressionNew))}

InitTraverse == op = "init" /\ IdleResolve /\ IdleFill /\ IdleRender /\ IdleTable /\ IdleExpand
NextTraverse ==
    \/ NewNode
    \/ \E child \in ScopePool : AddChild(child)
    \/ RenderNode
SpecTraverse == InitTraverse /\ [][NextTraverse]_vars

\* what a scope holding e sees under an enclosing scope: its own value of a field, else the
\* enclosing one
Seen(e, outer) == [f \in Fields |-> IF e[f] # None THEN e[f] ELSE outer[f]]
RECURSIVE Expected(_, _)
RECURSIVE ExpectedOf(_, _)
\* the outputs of the children under the scope they are in, one after the other
ExpectedOf(children, scope) ==
    IF children = <<>> THEN <<>>
    ELSE Expected(Head(children), scope) \o ExpectedOf(Tail(children), scope)
\* the text of a component walked top-down: a leaf shows the figure of what it sees from the
\* scope it is in
Expected(c, outer) ==
    CASE c.kind = "Text" -> c.text
      [] c.kind = "Expression" -> <<Fig(Seen(c.value, outer))>>
      [] c.kind = "Function" -> JoinSpace([i \in 1..Len(c.exprs) |-> <<Fig(Seen(c.exprs[i], outer))>>])
      [] c.kind = "Node" -> ExpectedOf(c.children, Seen(c.value, outer))

\* C12: a render leaves in the node what the node sees under the ambient Expression, whatever its
\* children hold; when it succeeds, every child scope is left with what it sees under the node's
\* completed Expression, whatever its siblings hold, and the output is the children's outputs
\* under that Expression, in child order, with nothing between them
C12_TopDownTraversal ==
    [][op' = "render" =>
        /\ node'.value = Seen(node.value, ctx')
        /\ Len(node'.children) = Len(node.children)
        /\ rendered'.ok =>
              /\ \A i \in 1..Len(node.children) :
                    IF node.children[i].kind = "Node"
                    THEN node'.children[i].value = Seen(node.children[i].value, node'.value)
                    ELSE node'.children[i] = node.children[i]
              /\ rendered'.val = ExpectedOf(node.children, node'.value)]_vars

\* a node with its own date, given its command by the ambient Expression, over a scope with
\* another date and a scope without one: the first leaf shows the child's date, the second the
\* parent's, and the parent keeps its own
C12_Witness ==
    /\ op = "render"
    /\ ctx = fill_arg(ExpressionNew, MkArg("Command", 1))
    /\ NumVals # 1
    /\ node.value = fill_arg(ctx, MkArg("Date", NumVals))
    /\ Len(node.children) = 2
    /\ node.children[1].kind = "Node"
    /\ node.children[2].kind = "Node"
    /\ node.children[1].value = fill_arg(ctx, MkArg("Date", 1))
    /\ node.children[2].value = node.value
    /\ rendered = Ok(<<Fig(node.children[1].value), Fig(node.value)>>)

====
